---- MODULE Spec2Model ----
(***************************************************************************)
(* Model of src/app.py: abrir_documento and analizar_pdf.                  *)
(*                                                                         *)
(* One call of analizar_pdf is modelled from its entry to its return or    *)
(* to the exception that leaves it.  The collaborators whose code is not   *)
(* part of the program (PyMuPDF's document, Streamlit's progress widget,   *)
(* the clock) are modelled by their possible outcomes: a call either       *)
(* returns a value drawn from a small set or raises.                       *)
(*                                                                         *)
(* A text is a sequence of one-character strings.  None is the empty       *)
(* sequence and a present optional value v is <<v>>.                       *)
(***************************************************************************)
EXTENDS Integers, Sequences, FiniteSets

\* ------------------------------------------------------------------ bounds
MaxPages == 3
MaxLen == 1
MaxMinChars == 1

\* ------------------------------------------------------ program constants
SampleLen == 200

VARIABLES
    pc,               \* position in analizar_pdf
    min_chars,        \* argument
    start_1idx,       \* argument, None or <<v>>
    end_1idx,         \* argument, None or <<v>>
    total_pages,      \* len(doc), 0 before the document is opened
    start,            \* normalized 0-indexed first page
    end,              \* normalized 0-indexed last page
    pages_to_process, \* list(range(start, end + 1))
    idx,              \* enumerate counter of the page in hand (1-based)
    registros,        \* list of per-page records
    paginas_con,      \* 1-indexed pages with text
    paginas_sin,      \* 1-indexed pages without text
    progress,         \* TRUE once st.progress(...) returned the widget
    informes,         \* attempted progress.progress calls, in order
    df,               \* returned table: None or <<rows>>
    resumen,          \* returned summary: None or <<record>>
    excepcion,        \* exception leaving analizar_pdf, "" if none
    docAbierto,       \* fitz.open returned a handle
    closeCalls,       \* number of doc.close() calls made
    accesos,          \* 0-indexed pages requested with doc[i], in order
    accesoCerrado,    \* a doc[i] was evaluated after a doc.close()
    fallosAcceso,     \* 1-indexed pages whose doc[i] raised
    fallosExtraccion, \* 1-indexed pages whose page.get_text().strip() raised
    docFallo          \* abrir_documento raised

vars == <<pc, min_chars, start_1idx, end_1idx, total_pages, start, end,
          pages_to_process, idx, registros, paginas_con, paginas_sin,
          progress, informes, df, resumen, excepcion, docAbierto, closeCalls,
          accesos, accesoCerrado, fallosAcceso, fallosExtraccion,
          docFallo>>

\* ----------------------------------------------------------------- values
None == <<>>

Some(v) == <<v>>

Max(a, b) == IF a >= b THEN a ELSE b

Min(a, b) == IF a <= b THEN a ELSE b

Alphabet == {"a", " ", "\n"}

Whitespace == {" ", "\n"}

Texts == UNION {[1..n -> Alphabet] : n \in 0..MaxLen}

\* one value below the first page, every page of the largest document, one
\* value above its last page
RangeVals == 0..(MaxPages + 1)

OptRange == {None} \cup {Some(v) : v \in RangeVals}

\* ------------------------------------------------------------- str methods
RECURSIVE LStrip(_)
LStrip(s) ==
    IF s = <<>> THEN s
    ELSE IF s[1] \in Whitespace THEN LStrip(Tail(s)) ELSE s

RECURSIVE RStrip(_)
RStrip(s) ==
    IF s = <<>> THEN s
    ELSE IF s[Len(s)] \in Whitespace THEN RStrip(SubSeq(s, 1, Len(s) - 1)) ELSE s

\* str.strip()
Strip(s) == RStrip(LStrip(s))

\* str.split(): the maximal runs of non-whitespace characters
RECURSIVE SplitFrom(_, _, _)
SplitFrom(s, cur, acc) ==
    IF s = <<>> THEN (IF cur = <<>> THEN acc ELSE Append(acc, cur))
    ELSE IF s[1] \in Whitespace
         THEN SplitFrom(Tail(s), <<>>, IF cur = <<>> THEN acc ELSE Append(acc, cur))
         ELSE SplitFrom(Tail(s), Append(cur, s[1]), acc)

Split(s) == SplitFrom(s, <<>>, <<>>)

\* text[:200].replace("\n", " ")
Muestra(text) ==
    LET cut == SubSeq(text, 1, Min(SampleLen, Len(text)))
    IN  [k \in 1..Len(cut) |-> IF cut[k] = "\n" THEN " " ELSE cut[k]]

\* ------------------------------------------------- range normalization
\* faulty variants of the clamp: the lower or the upper limit is forgotten
ClampSinMinimo(total, v_1idx) == Min(total - 1, v_1idx - 1)

ClampSinMaximo(total, v_1idx) == Max(0, v_1idx - 1)

\* max(0, min(total_pages - 1, v_1idx - 1))
Clamp(total, v_1idx) == Max(0, Min(total - 1, v_1idx - 1))

\* faulty variant: the swap of lines 67-68 is forgotten
RangoSinIntercambio(total, s, e) ==
    IF s = None \/ e = None
    THEN <<0, total - 1>>
    ELSE <<Clamp(total, s[1]), Clamp(total, e[1])>>

\* lines 61-68: the normalized 0-indexed pair <<start, end>>
RangoNormalizado(total, s, e) ==
    IF s = None \/ e = None
    THEN <<0, total - 1>>
    ELSE LET s0 == Clamp(total, s[1])
             e0 == Clamp(total, e[1])
         IN  IF e0 < s0 THEN <<e0, s0>> ELSE <<s0, e0>>

\* list(range(a, b + 1))
RangeList(a, b) == IF b < a THEN <<>> ELSE [k \in 1..(b - a + 1) |-> a + k - 1]

\* ------------------------------------------------------ classification
\* faulty variant: a strict comparison
TieneTextoEstricto(char_count, umbral) == char_count > umbral

\* char_count >= min_chars
TieneTexto(char_count, umbral) == char_count >= umbral

RegistroDe(i, text, umbral) ==
    [pagina        |-> i + 1,
     tiene_texto   |-> TieneTexto(Len(text), umbral),
     caracteres    |-> Len(text),
     palabras      |-> IF text # <<>> THEN Len(Split(text)) ELSE 0,
     muestra_texto |-> IF text # <<>> THEN Muestra(text) ELSE <<>>]

\* faulty variant: the 0-indexed number is appended
PaginaCeroIndexada(lista, i) == Append(lista, i)

\* paginas_con.append(i + 1) / paginas_sin.append(i + 1)
AnotarPagina(lista, i) == Append(lista, i + 1)

\* faulty variant: the final page is not special
InformarSoloPorTiempo(transcurrido, n, total) == transcurrido

\* now - last_update > 0.05 or idx == len(pages_to_process)
DebeInformar(transcurrido, n, total) == transcurrido \/ n = total

\* DataFrame(...).sort_values("pagina").reset_index(drop=True)
RECURSIVE InsertarPorPagina(_, _)
InsertarPorPagina(r, s) ==
    IF s = <<>> THEN <<r>>
    ELSE IF r.pagina < s[1].pagina THEN <<r>> \o s
         ELSE <<s[1]>> \o InsertarPorPagina(r, Tail(s))

RECURSIVE SortByPagina(_)
SortByPagina(s) ==
    IF s = <<>> THEN <<>>
    ELSE InsertarPorPagina(s[Len(s)], SortByPagina(SubSeq(s, 1, Len(s) - 1)))

\* ------------------------------------------------------------------ state
Init ==
    /\ pc = "inicio"
    /\ min_chars \in 0..MaxMinChars
    /\ start_1idx \in OptRange
    /\ end_1idx \in OptRange
    /\ total_pages = 0
    /\ start = 0
    /\ end = 0
    /\ pages_to_process = <<>>
    /\ idx = 0
    /\ registros = <<>>
    /\ paginas_con = <<>>
    /\ paginas_sin = <<>>
    /\ progress = FALSE
    /\ informes = <<>>
    /\ df = None
    /\ resumen = None
    /\ excepcion = ""
    /\ docAbierto = FALSE
    /\ closeCalls = 0
    /\ accesos = <<>>
    /\ accesoCerrado = FALSE
    /\ fallosAcceso = {}
    /\ fallosExtraccion = {}
    /\ docFallo = FALSE

args == <<min_chars, start_1idx, end_1idx>>

rango == <<start, end, pages_to_process>>

listas == <<registros, paginas_con, paginas_sin>>

salida == <<df, resumen>>

\* ---------------------------------------------------- abrir_documento
\* fitz.open raises: RuntimeError, no handle exists
AbrirFalla ==
    /\ pc = "inicio"
    /\ pc' = "error"
    /\ excepcion' = "RuntimeError"
    /\ docFallo' = TRUE
    /\ UNCHANGED <<args, total_pages, rango, idx, listas, progress, informes,
                   salida, docAbierto, closeCalls, accesos, accesoCerrado,
                   fallosAcceso, fallosExtraccion>>

\* faulty variant: a rejected password is not reported and the handle is
\* returned as if it were readable
AbrirCifradoIgnorado ==
    /\ pc = "inicio"
    /\ pc' = "abierto"
    /\ docAbierto' = TRUE
    /\ docFallo' = TRUE
    /\ total_pages' \in 1..MaxPages
    /\ UNCHANGED <<args, rango, idx, listas, progress, informes, salida,
                   excepcion, closeCalls, accesos, accesoCerrado,
                   fallosAcceso, fallosExtraccion>>

\* encrypted, authenticate("") returns a false value: close, raise inside the
\* try, the handler closes again and raises (a close of a closed handle may
\* itself raise, which then is the exception that leaves)
AbrirCifradoRechazado ==
    /\ pc = "inicio"
    /\ pc' = "error"
    /\ docAbierto' = TRUE
    /\ closeCalls' = closeCalls + 2
    /\ excepcion' \in {"RuntimeError", "ValueError"}
    /\ docFallo' = TRUE
    /\ UNCHANGED <<args, total_pages, rango, idx, listas, progress, informes,
                   salida, accesos, accesoCerrado, fallosAcceso,
                   fallosExtraccion>>

\* encrypted, authenticate("") raises: the handler closes and raises
AbrirCifradoExcepcion ==
    /\ pc = "inicio"
    /\ pc' = "error"
    /\ docAbierto' = TRUE
    /\ closeCalls' = closeCalls + 1
    /\ excepcion' = "RuntimeError"
    /\ docFallo' = TRUE
    /\ UNCHANGED <<args, total_pages, rango, idx, listas, progress, informes,
                   salida, accesos, accesoCerrado, fallosAcceso,
                   fallosExtraccion>>

\* not encrypted, or authenticate("") succeeds: doc is returned, line 58
\* reads total_pages = len(doc)
\* (a document of at least one page, MaxPages at most)
AbrirOk ==
    /\ pc = "inicio"
    /\ pc' = "abierto"
    /\ docAbierto' = TRUE
    /\ total_pages' \in 1..MaxPages
    /\ UNCHANGED <<args, rango, idx, listas, progress, informes, salida,
                   excepcion, closeCalls, accesos, accesoCerrado,
                   fallosAcceso, fallosExtraccion, docFallo>>

\* -------------------------------------------------------- analizar_pdf
\* lines 60-73
NormalizarRango ==
    /\ pc = "abierto"
    /\ LET r == RangoNormalizado(total_pages, start_1idx, end_1idx)
       IN  /\ start' = r[1]
           /\ end' = r[2]
           /\ pages_to_process' = RangeList(r[1], r[2])
    /\ pc' = "normalizado"
    /\ UNCHANGED <<args, total_pages, idx, listas, progress, informes, salida,
                   excepcion, docAbierto, closeCalls, accesos, accesoCerrado,
                   fallosAcceso, fallosExtraccion, docFallo>>

\* line 74: st.progress(0.0, ...) returns the widget
CrearProgreso ==
    /\ pc = "normalizado"
    /\ progress' = TRUE
    /\ pc' = "bucle"
    /\ UNCHANGED <<args, total_pages, rango, idx, listas, informes, salida,
                   excepcion, docAbierto, closeCalls, accesos, accesoCerrado,
                   fallosAcceso, fallosExtraccion, docFallo>>

\* line 74: st.progress(0.0, ...) raises; nothing catches it
CrearProgresoFalla ==
    /\ pc = "normalizado"
    /\ excepcion' = "st.progress"
    /\ pc' = "error"
    /\ UNCHANGED <<args, total_pages, rango, idx, listas, progress, informes,
                   salida, docAbierto, closeCalls, accesos, accesoCerrado,
                   fallosAcceso, fallosExtraccion, docFallo>>

\* lines 77-78: the next (idx, i) of enumerate and page = doc[i]
CargarPagina ==
    /\ pc = "bucle"
    /\ idx < Len(pages_to_process)
    /\ idx' = idx + 1
    /\ accesos' = Append(accesos, pages_to_process[idx + 1])
    /\ accesoCerrado' = (accesoCerrado \/ closeCalls > 0)
    /\ pc' = "pagina"
    /\ UNCHANGED <<args, total_pages, rango, listas, progress, informes,
                   salida, excepcion, docAbierto, closeCalls, fallosAcceso,
                   fallosExtraccion, docFallo>>

\* line 78: doc[i] raises; it is outside the try of lines 81-84
CargarPaginaFalla ==
    /\ pc = "bucle"
    /\ idx < Len(pages_to_process)
    /\ idx' = idx + 1
    /\ accesos' = Append(accesos, pages_to_process[idx + 1])
    /\ accesoCerrado' = (accesoCerrado \/ closeCalls > 0)
    /\ fallosAcceso' = fallosAcceso \cup {pages_to_process[idx + 1] + 1}
    /\ excepcion' = "doc[i]"
    /\ pc' = "error"
    /\ UNCHANGED <<args, total_pages, rango, listas, progress, informes,
                   salida, docAbierto, closeCalls, fallosExtraccion, docFallo>>

\* lines 86-101 for page i with the stripped text
Registrar(i, text) ==
    LET r == RegistroDe(i, text, min_chars)
    IN  /\ registros' = Append(registros, r)
        /\ IF r.tiene_texto
           THEN /\ paginas_con' = AnotarPagina(paginas_con, i)
                /\ paginas_sin' = paginas_sin
           ELSE /\ paginas_sin' = AnotarPagina(paginas_sin, i)
                /\ paginas_con' = paginas_con

\* lines 81-82 and 86-101: get_text() returns raw
ExtraerTexto ==
    /\ pc = "pagina"
    /\ \E raw \in Texts : Registrar(pages_to_process[idx], Strip(raw))
    /\ pc' = "progreso"
    /\ UNCHANGED <<args, total_pages, rango, idx, progress, informes, salida,
                   excepcion, docAbierto, closeCalls, accesos, accesoCerrado,
                   fallosAcceso, fallosExtraccion, docFallo>>

\* lines 83-84 and 86-101: get_text() raises, text = ""
ExtraerTextoFalla ==
    /\ pc = "pagina"
    /\ Registrar(pages_to_process[idx], <<>>)
    /\ fallosExtraccion' = fallosExtraccion \cup {pages_to_process[idx] + 1}
    /\ pc' = "progreso"
    /\ UNCHANGED <<args, total_pages, rango, idx, progress, informes, salida,
                   excepcion, docAbierto, closeCalls, accesos, accesoCerrado,
                   fallosAcceso, docFallo>>

Informe == [current |-> idx, total |-> Len(pages_to_process)]

\* lines 103-109: the report is due and progress.progress returns
InformarProgreso ==
    /\ pc = "progreso"
    /\ \E transcurrido \in BOOLEAN :
           DebeInformar(transcurrido, idx, Len(pages_to_process))
    /\ informes' = Append(informes, Informe)
    /\ pc' = "bucle"
    /\ UNCHANGED <<args, total_pages, rango, idx, listas, progress, salida,
                   excepcion, docAbierto, closeCalls, accesos, accesoCerrado,
                   fallosAcceso, fallosExtraccion, docFallo>>

\* lines 105-108: the report is due and progress.progress raises: pass
InformarProgresoFalla ==
    /\ pc = "progreso"
    /\ \E transcurrido \in BOOLEAN :
           DebeInformar(transcurrido, idx, Len(pages_to_process))
    /\ informes' = Append(informes, Informe)
    /\ pc' = "bucle"
    /\ UNCHANGED <<args, total_pages, rango, idx, listas, progress, salida,
                   excepcion, docAbierto, closeCalls, accesos, accesoCerrado,
                   fallosAcceso, fallosExtraccion, docFallo>>

\* line 104 is false: no report for this page
OmitirInforme ==
    /\ pc = "progreso"
    /\ \E transcurrido \in BOOLEAN :
           ~DebeInformar(transcurrido, idx, Len(pages_to_process))
    /\ pc' = "bucle"
    /\ UNCHANGED <<args, total_pages, rango, idx, listas, progress, informes,
                   salida, excepcion, docAbierto, closeCalls, accesos,
                   accesoCerrado, fallosAcceso, fallosExtraccion,
                   docFallo>>

\* line 111: the loop is exhausted, doc.close()
Cerrar ==
    /\ pc = "bucle"
    /\ idx = Len(pages_to_process)
    /\ closeCalls' = closeCalls + 1
    /\ pc' = "cerrado"
    /\ UNCHANGED <<args, total_pages, rango, idx, listas, progress, informes,
                   salida, excepcion, docAbierto, accesos, accesoCerrado,
                   fallosAcceso, fallosExtraccion, docFallo>>

\* lines 113-124
Resumir ==
    /\ pc = "cerrado"
    /\ LET tabla == SortByPagina(registros)
       IN  /\ df' = Some(tabla)
           /\ resumen' = Some([total_paginas_analizadas |-> Len(tabla),
                               paginas_con_texto        |-> Len(paginas_con),
                               paginas_sin_texto        |-> Len(paginas_sin),
                               lista_paginas_con_texto  |-> paginas_con,
                               lista_paginas_sin_texto  |-> paginas_sin])
    /\ pc' = "fin"
    /\ UNCHANGED <<args, total_pages, rango, idx, listas, progress, informes,
                   excepcion, docAbierto, closeCalls, accesos, accesoCerrado,
                   fallosAcceso, fallosExtraccion, docFallo>>

Next ==
    \/ AbrirFalla
    \/ AbrirCifradoRechazado
    \/ AbrirCifradoExcepcion
    \/ AbrirOk
    \/ NormalizarRango
    \/ CrearProgreso
    \/ CrearProgresoFalla
    \/ CargarPagina
    \/ CargarPaginaFalla
    \/ ExtraerTexto
    \/ ExtraerTextoFalla
    \/ InformarProgreso
    \/ InformarProgresoFalla
    \/ OmitirInforme
    \/ Cerrar
    \/ Resumir

Spec == Init /\ [][Next]_vars

\* ------------------------------------------------------------ properties
\* the range has been normalized (lines 60-68 have run)
Normalizado == total_pages > 0 /\ pc # "abierto"

Elems(s) == {s[k] : k \in 1..Len(s)}

Ascendente(s) == \A k \in 1..(Len(s) - 1) : s[k] < s[k + 1]

\* the 1-indexed numbers of the pages taken from the document
PaginasAnalizadas == {accesos[k] + 1 : k \in 1..Len(accesos)}

AmbosDados == start_1idx # None /\ end_1idx # None

\* C1: when analizar_pdf returns, paginas_con_texto + paginas_sin_texto equals
\* total_paginas_analizadas, both page lists are strictly ascending, they
\* are disjoint, and their union is the set of 1-indexed pages analyzed.
C1_Particion ==
    pc = "fin" =>
        LET r == resumen[1]
        IN  /\ r.paginas_con_texto + r.paginas_sin_texto = r.total_paginas_analizadas
            /\ Ascendente(r.lista_paginas_con_texto)
            /\ Ascendente(r.lista_paginas_sin_texto)
            /\ Elems(r.lista_paginas_con_texto) \cap Elems(r.lista_paginas_sin_texto) = {}
            /\ Elems(r.lista_paginas_con_texto) \cup Elems(r.lista_paginas_sin_texto)
                   = PaginasAnalizadas
            /\ PaginasAnalizadas = {p + 1 : p \in start..end}

C1_Witness ==
    /\ pc = "fin"
    /\ Len(resumen[1].lista_paginas_con_texto) >= 1
    /\ Len(resumen[1].lista_paginas_sin_texto) >= 2
    /\ AmbosDados

\* C2: once the range is normalized, 0 <= start <= end <= total_pages - 1 for
\* every pair of requested bounds, and with either bound absent the range is
\* (0, total_pages - 1).
C2_RangoValido ==
    Normalizado =>
        /\ 0 <= start
        /\ start <= end
        /\ end <= total_pages - 1
        /\ (~AmbosDados => start = 0 /\ end = total_pages - 1)

C2_Witness ==
    /\ Normalizado
    /\ AmbosDados
    /\ end_1idx[1] < 1
    /\ start_1idx[1] > total_pages
    /\ total_pages >= 2

\* C4: the returned rows carry pagina = start+1, start+2, ..., end+1 in that
\* order, so total_paginas_analizadas = end - start + 1.
C4_DetalleOrdenado ==
    pc = "fin" =>
        LET tabla == df[1]
        IN  /\ Len(tabla) = end - start + 1
            /\ \A k \in 1..Len(tabla) : tabla[k].pagina = start + k
            /\ resumen[1].total_paginas_analizadas = end - start + 1

\* a reversed request that spans more than one page
C4_Witness ==
    /\ pc = "fin"
    /\ AmbosDados
    /\ start_1idx[1] > end_1idx[1]
    /\ end_1idx[1] >= 1
    /\ start_1idx[1] <= total_pages
    /\ Len(df[1]) >= 2

\* both requested bounds lie below page 1, or both lie above the last page
FueraDeRango ==
    /\ AmbosDados
    /\ \/ (start_1idx[1] < 1 /\ end_1idx[1] < 1)
       \/ (start_1idx[1] > total_pages /\ end_1idx[1] > total_pages)

C6_UmbralCero ==
    min_chars = 0 =>
        /\ \A k \in 1..Len(registros) : registros[k].tiene_texto
        /\ paginas_sin = <<>>
        /\ (pc = "fin" =>
               /\ resumen[1].lista_paginas_sin_texto = <<>>
               /\ resumen[1].paginas_con_texto = resumen[1].total_paginas_analizadas
               /\ \A k \in 1..Len(df[1]) : df[1][k].tiene_texto)

\* min_chars = 0, one page failed to extract, another returned only whitespace
C6_Witness ==
    /\ pc = "fin"
    /\ min_chars = 0
    /\ fallosExtraccion # {}
    /\ \E k \in 1..Len(registros) :
           /\ registros[k].caracteres = 0
           /\ registros[k].pagina \notin fallosExtraccion

\* C7: when abrir_documento fails, an exception leaves analizar_pdf and no
\* page was accessed, no record, summary or table exists and the progress
\* sink was neither created nor updated.
C7_FalloDeDocumento ==
    docFallo =>
        /\ pc = "error"
        /\ excepcion \in {"RuntimeError", "ValueError"}
        /\ accesos = <<>>
        /\ registros = <<>>
        /\ paginas_con = <<>>
        /\ paginas_sin = <<>>
        /\ ~progress
        /\ informes = <<>>
        /\ df = None
        /\ resumen = None

\* an encrypted document whose empty password is rejected
C7_Witness ==
    /\ docFallo
    /\ docAbierto
    /\ closeCalls = 2

\* C9: every attempted report carries current in 1..M and total = M with M the
\* number of pages to process, the current values strictly increase, and a
\* completed analysis has attempted the report M of M exactly once, last.
C9_InformeFinal ==
    LET M == Len(pages_to_process)
    IN  /\ \A k \in 1..Len(informes) :
               /\ informes[k].current \in 1..M
               /\ informes[k].total = M
        /\ \A k \in 1..(Len(informes) - 1) :
               informes[k].current < informes[k + 1].current
        /\ (pc = "fin" =>
               /\ M >= 1
               /\ informes # <<>>
               /\ informes[Len(informes)] = [current |-> M, total |-> M]
               /\ Cardinality({k \in 1..Len(informes) : informes[k].current = M}) = 1)

\* three pages, the first throttled, the second and the last reported
C9_Witness ==
    /\ pc = "fin"
    /\ Len(pages_to_process) = 3
    /\ Len(informes) = 2
    /\ informes[1].current = 2

\* C3 as stated: whenever the text of a page could not be obtained, no
\* exception leaves analizar_pdf and the page has a record with zero
\* characters, zero words, an empty sample and tiene_texto = (0 >= min_chars).
C3_FalloDePaginaNoAborta ==
    \A p \in fallosAcceso \cup fallosExtraccion :
        /\ pc # "error"
        /\ \E k \in 1..Len(registros) :
               /\ registros[k].pagina = p
               /\ registros[k].caracteres = 0
               /\ registros[k].palabras = 0
               /\ registros[k].muestra_texto = <<>>
               /\ (min_chars >= 1 => ~registros[k].tiene_texto)

\* C8 as stated: no failure of the progress sink, at its creation or at an
\* update, leaves analizar_pdf as an exception.
C8_SinkNuncaAborta == excepcion # "st.progress"

\* C10 as stated: on return or raise, a handle that was opened has been
\* closed exactly once, and no page was accessed after a close.
C10_CierreUnico ==
    /\ (pc \in {"fin", "error"} /\ docAbierto) => closeCalls = 1
    /\ ~accesoCerrado

====
